---- MODULE Spec2Model ----
(***************************************************************************)
(* Model of the visual-vocab enrichment pipeline of spanish-pipeline-rs:   *)
(* create_visual_vocabs / create_visual_vocab / deep_search                *)
(* (src/src/pipeline/visual_vocab.rs), search_vocab                        *)
(* (src/src/spider/spanish_dict.rs) and image_search_max                   *)
(* (src/src/spider/google_image.rs).                                       *)
(*                                                                         *)
(* Texts are kept as strings.  The sentence-embedding network is an        *)
(* external library; it is represented by a fixed table from texts to      *)
(* small integer vectors (Embed).  An f32 score is kept exactly as the     *)
(* pair (dot, nn) standing for dot / sqrt(nn); nn = 0 is the NaN that      *)
(* 0.0 / 0.0 produces.                                                     *)
(***************************************************************************)
EXTENDS Integers, Sequences, FiniteSets, TLC

\* ------------------------------------------------------------------ bounds

\* number of flashcards in the batch (one spawned task per flashcard)
NumTasks == 2
\* longest candidate list handed to deep_search in the ranking harness
MaxContents == 3
\* largest limit handed to deep_search in the ranking harness
MaxLimit == 3

Tasks == 1..NumTasks

\* ------------------------------------------------------ f32 scores, cosine

Sq(x) == x * x

Sgn(x) == IF x > 0 THEN 1 ELSE IF x < 0 THEN -1 ELSE 0

\* an f32 value dot / sqrt(nn)
F32(dot, nn) == [dot |-> dot, nn |-> nn]

IsNaN(s) == s.nn = 0

\* sign(v) * v^2 scaled by the other operand's nn: monotone in v
Key(s, other) == Sgn(s.dot) * Sq(s.dot) * other.nn

\* mutant: !(a <= b), which lets NaN through
NotLe(a, b) == IsNaN(a) \/ IsNaN(b) \/ Key(a, b) > Key(b, a)

\* IEEE `a > b`: false as soon as one side is NaN
Gt(a, b) == ~IsNaN(a) /\ ~IsNaN(b) /\ Key(a, b) > Key(b, a)

\* f32::partial_cmp: None when one side is NaN
PartialCmp(a, b) ==
    IF IsNaN(a) \/ IsNaN(b) THEN "None"
    ELSE IF Key(a, b) < Key(b, a) THEN "Less"
    ELSE IF Key(a, b) > Key(b, a) THEN "Greater"
    ELSE "Equal"

\* the vector the embedding network yields for a text
Embed(text) ==
    CASE text = "luz"               -> <<1, 0>>
      [] text = "light (noun)"      -> <<1, 0>>
      [] text = "lamp (noun)"       -> <<1, 1>>
      [] text = "birth (idiom)"     -> <<0, 1>>
      [] text = "dark (adjective)"  -> <<-1, 0>>
      [] OTHER                      -> <<0, 0>>

\* model.encode(texts): one vector per text
Encode(texts) == [i \in 1..Len(texts) |-> Embed(texts[i])]

RECURSIVE SumTo(_, _)
SumTo(f, n) == IF n = 0 THEN 0 ELSE f[n] + SumTo(f, n - 1)

cos_similarity(a, b) ==
    LET dot_product == SumTo([i \in 1..Len(a) |-> a[i] * b[i]], Len(a))
        a_norm == SumTo([i \in 1..Len(a) |-> a[i] * a[i]], Len(a))
        b_norm == SumTo([i \in 1..Len(a) |-> b[i] * b[i]], Len(a))
    IN  F32(dot_product, a_norm * b_norm)

\* -------------------------------------------------- deep_search, pure part

\* the filter_map of deep_search: (index, score) of every score > threshold,
\* in index order; indices are the 0-based ones of the Rust code
RECURSIVE FilterFrom(_, _, _)
FilterFrom(similarities, threshold, i) ==
    IF i > Len(similarities) THEN <<>>
    ELSE (IF Gt(similarities[i], threshold)
             THEN << <<i - 1, similarities[i]>> >> ELSE <<>>)
         \o FilterFrom(similarities, threshold, i + 1)

Kept(similarities, threshold) == FilterFrom(similarities, threshold, 1)

\* mutant: a.1.partial_cmp(&b.1), an ascending sort
CompareAscending(a, b) == PartialCmp(a[2], b[2])

\* the comparator of results.sort_by: b.1.partial_cmp(&a.1), before unwrap
Compare(a, b) == PartialCmp(b[2], a[2])

\* slice::sort_by is a stable sort: x goes behind every element that does
\* not compare Greater than it
RECURSIVE InsertStable(_, _)
InsertStable(sorted, x) ==
    IF sorted = <<>> THEN <<x>>
    ELSE IF Compare(sorted[Len(sorted)], x) = "Greater"
         THEN InsertStable(SubSeq(sorted, 1, Len(sorted) - 1), x)
              \o <<sorted[Len(sorted)]>>
         ELSE sorted \o <<x>>

RECURSIVE SortBy(_)
SortBy(results) ==
    IF results = <<>> THEN <<>>
    ELSE InsertStable(SortBy(SubSeq(results, 1, Len(results) - 1)),
                      results[Len(results)])

\* the unwrap of the comparator panics when a comparison of the sort meets
\* a NaN; a sort of two or more elements compares every element
SortPanics(results) ==
    Len(results) >= 2 /\ \E i \in 1..Len(results) : IsNaN(results[i][2])

Returned(results) == [panic |-> FALSE, results |-> results]

\* the task unwinds: unwrap on None, or slice index out of range
Panicked == [panic |-> TRUE, results |-> <<>>]

\* results[0..limit]: panics when limit exceeds the length
Slice(results, limit) ==
    IF limit > Len(results) THEN Panicked
    ELSE Returned(SubSeq(results, 1, limit))

\* lines 422-442: similarities, filter, sort, slice
Rank(query_embedding, content_embedding, limit, threshold) ==
    LET similarities == [i \in 1..Len(content_embedding) |->
                            cos_similarity(query_embedding, content_embedding[i])]
        results == Kept(similarities, threshold)
    IN  IF SortPanics(results) THEN Panicked
        ELSE IF limit = 0 THEN Returned(SortBy(results))
        ELSE Slice(SortBy(results), limit)

\* ------------------------------------------------------------ input data

IMAGE_RANDOM_POOL_SIZE == 10

\* a full result page of image_search, and a partial one
FullPage == 100
SmallPage == 4

\* what one call of image_search can deliver: the number of parsed images
PageSizes == {0, SmallPage, FullPage}

\* image_search_max on its own: the largest max, and the largest page
MaxMax == 5
MaxPage == 3

\* what makes image_search panic: line 127 unwraps the send and the body
\* read, line 141 expects a script block, lines 143-149 unwrap the parse
Faults == {"transport", "no_script", "bad_json"}

\* what the caller of image_search_max has in hand: nothing yet, the
\* Ok(images) of line 175 (by its length), or nothing because the call
\* unwound
Pending == [kind |-> "pending", len |-> 0]
OkImages(len) == [kind |-> "ok", len |-> len]
Unwinding == [kind |-> "panic", len |-> 0]

\* lines 162-163: images = Vec::new(), offset = 0; last is the length of
\* the page the latest image_search returned (-1 before the first)
Call(max) ==
    [pc |-> "loop", max |-> max, offset |-> 0, images |-> 0, last |-> -1,
     fault |-> "none", got |-> Pending]
NoCall == [Call(0) EXCEPT !.pc = "idle"]

\* the i-th input flashcard; the same word may occur twice in a batch
Flashcard(i) == [word |-> "luz", definition |-> ToString(i)]

vocabs == [i \in Tasks |-> Flashcard(i)]

Def(kind, group, definition, exs) ==
    [kind |-> kind, group |-> group, definition |-> definition, examples |-> exs]

\* the DictionaryEntry.definitions a dictionary page can yield
Entries ==
    { <<>>,
      << Def("DefinitionAndGroup", "noun", "light", <<>>) >>,
      << Def("DefinitionAndGroupWithExample", "noun", "light", <<"la luz es bonita">>) >>,
      << Def("DefinitionAndGroupWithExample", "noun", "light", <<"">>) >>,
      << Def("DefinitionAndGroupWithExample", "noun", "lamp", <<"apaga la luz">>),
         Def("DefinitionAndGroupWithExample", "noun", "light", <<"la luz es bonita">>) >>,
      << Def("DefinitionAndGroupWithExample", "adjective", "dark", <<"a oscuras">>) >> }

\* search_vocab_inner: the page fetch panics, or an entry is parsed
LookupOutcomes ==
    {[panic |-> TRUE, definitions |-> <<>>]}
    \cup {[panic |-> FALSE, definitions |-> e] : e \in Entries}

\* format!("{} ({})", definition, group)
Format(definition, group) == definition \o " (" \o group \o ")"

\* lines 327-360: the (definition text, example) pairs of the definitions
\* that carry examples
RECURSIVE ExamplesOf(_)
ExamplesOf(definitions) ==
    IF definitions = <<>> THEN <<>>
    ELSE LET d == Head(definitions)
         IN  (IF d.kind = "DefinitionAndGroupWithExample"
                 THEN [k \in 1..Len(d.examples) |->
                          <<Format(d.definition, d.group), d.examples[k]>>]
                 ELSE <<>>)
             \o ExamplesOf(Tail(definitions))

VisualFlashCard(word, definition, image, example) ==
    [word |-> word, definition |-> definition, image |-> image, example |-> example]

\* VisualFlashCard::default()
DefaultCard == VisualFlashCard("", "", "rgb8_1x1", "")

\* the arguments of one deep_search call
Args(query, contents, limit, threshold) ==
    [query |-> query, contents |-> contents, limit |-> limit, threshold |-> threshold]

NoArgs == Args("", <<>>, 0, F32(0, 1))

\* the texts and thresholds of the ranking harness
QueryTexts == {"luz", ""}
ContentTexts ==
    {"light (noun)", "lamp (noun)", "birth (idiom)", "dark (adjective)", ""}
\* -1.0, 0.0, 0.707.. and NaN
Thresholds == {F32(-1, 1), F32(0, 1), F32(1, 2), F32(0, 0)}

SeqsUpTo(S, n) == UNION {[1..k -> S] : k \in 0..n}

RankArgs ==
    {Args(q, c, l, th) : q \in QueryTexts, c \in SeqsUpTo(ContentTexts, MaxContents),
                         l \in 0..MaxLimit, th \in Thresholds}

\* search_vocab on its own: the word, and what the keyword model can
\* extract from it
MaxKeywords == 2
Words == {"dar a luz"}
Keywords == {"luz", "parto", "dar"}

\* model.predict(&[word]): one list of keywords per input text, best first
\* and without repeats; <<>> is a prediction with no list at all
Predictions ==
    {<<>>} \cup
    {<<ks>> : ks \in {s \in SeqsUpTo(Keywords, MaxKeywords) :
                         \A i, j \in 1..Len(s) : s[i] = s[j] => i = j}}

\* what the caller of search_vocab has in hand: nothing yet, Ok(entry) by
\* its definitions, an Err, or nothing because the call unwound
NoEntry == [kind |-> "pending", definitions |-> <<>>]
OkEntry(definitions) == [kind |-> "ok", definitions |-> definitions]
ErrEntry == [kind |-> "err", definitions |-> <<>>]
UnwoundEntry == [kind |-> "panic", definitions |-> <<>>]

\* one search_vocab_inner call that returned: which loop made it, the text
\* it looked up, the definitions of the entry it got
Attempt(loop, text, definitions) ==
    [loop |-> loop, text |-> text, definitions |-> definitions]

\* search_vocab(word) about to load the keyword model; i counts the turns
\* of the loop it is in, attempts lists the lookups that returned
Lookup(word, prediction) ==
    [pc |-> "load", word |-> word, prediction |-> prediction, i |-> 0,
     attempts |-> <<>>, fault |-> "none", got |-> NoEntry]
NoLookup == [Lookup("", <<>>) EXCEPT !.pc = "idle"]

\* search_vocab_inner on its own: the largest number of group blocks on a
\* page, and the largest number of element children of a group's content
MaxGroups == 2
MaxCount == 4

\* one group block of a dictionary page, by what the handlers read of it.
\*   section  the id of the dictionary section it stands in
\*   ok       neodict: group.next_sibling() is there; neoharrap: the
\*            children().nth(1) and its first_child() are there
\*   label    neodict: the group has a span:last-child; neoharrap: the
\*            third child of the group's first child is an element
\*   count    neodict: the definition nodes under the sibling; neoharrap:
\*            intermediate.len()
\*   last     neoharrap: the last element of intermediate has children
\*   rows     neoharrap: the example rows with exactly 3 element children
Block(section, ok, label, count, last, rows) ==
    [section |-> section, ok |-> ok, label |-> label, count |-> count,
     last |-> last, rows |-> rows]

\* the blocks that differ in what the handlers do with them
NeodictBlocks ==
    {Block("neodict", FALSE, TRUE, 0, FALSE, 0),
     Block("neodict", TRUE, TRUE, 0, FALSE, 0)}
    \cup {Block("neodict", TRUE, l, 1, FALSE, 0) : l \in BOOLEAN}

NeoharrapBlocks ==
    {Block("neoharrap", FALSE, TRUE, 0, FALSE, 0)}
    \cup {Block("neoharrap", TRUE, l, 0, FALSE, 0) : l \in BOOLEAN}
    \cup {Block("neoharrap", TRUE, l, c, FALSE, 0) : l \in BOOLEAN, c \in 1..MaxCount}
    \cup {Block("neoharrap", TRUE, l, c, TRUE, r) :
              l \in BOOLEAN, c \in 1..MaxCount, r \in 0..1}

\* a section with another id holds no block the handlers read
OtherBlocks == {Block("other", TRUE, TRUE, 0, FALSE, 0)}

\* a fetched page: whether the document has a match for each of
\* a[lang=en], span[lang=es] and span[lang=en], and its blocks in document
\* order
Pages ==
    {[texts |-> x, blocks |-> b] :
        x \in BOOLEAN,
        b \in SeqsUpTo(NeodictBlocks \cup NeoharrapBlocks \cup OtherBlocks, MaxGroups)}

\* a definition pushed for block k: its variant, whether its definition
\* text is the empty string, the number of its examples
Pushed(k, variant, empty, examples) ==
    [block |-> k, variant |-> variant, empty |-> empty, examples |-> examples]

\* what one turn over a block does: it panics, or it pushes these
\* definitions
BlockPanics == [panic |-> TRUE, pushed |-> <<>>]
BlockPushes(pushed) == [panic |-> FALSE, pushed |-> pushed]

\* lines 150-169: as_dom clones the whole tree, so get_text_from_selector
\* takes the first match of the document and unwraps it
Neodict(page, k) ==
    LET group == page.blocks[k]
    IN  IF ~group.ok THEN BlockPanics
        ELSE IF group.count = 0 THEN BlockPushes(<<>>)
        ELSE IF ~page.texts \/ ~group.label THEN BlockPanics
        ELSE BlockPushes([i \in 1..group.count |->
                 Pushed(k, "DefinitionAndGroupWithExample", FALSE, 1)])

\* lines 178-249, one group
Neoharrap(page, k) ==
    LET group == page.blocks[k]
    IN  IF ~group.ok THEN BlockPanics
        ELSE IF ~group.label THEN BlockPanics
        ELSE IF group.count = 0 THEN BlockPanics
        ELSE IF ~group.last THEN BlockPushes(<<>>)
        ELSE IF group.rows = 0
        THEN BlockPushes(<<Pushed(k, "DefinitionAndGroup", group.count # 3, 0)>>)
        ELSE BlockPushes(<<Pushed(k, "DefinitionAndGroupWithExample",
                                   group.count # 3, group.rows)>>)

\* lines 144-255: the match on the section id
Handle(page, k) ==
    CASE page.blocks[k].section = "neodict" -> Neodict(page, k)
      [] page.blocks[k].section = "neoharrap" -> Neoharrap(page, k)
      [] OTHER -> BlockPushes(<<>>)

\* search_vocab_inner about to fetch the page; k blocks are done
Fetch(page) ==
    [pc |-> "fetch", page |-> page, k |-> 0, definitions |-> <<>>,
     fault |-> "none", got |-> "pending"]
NoFetch == [Fetch([texts |-> TRUE, blocks |-> <<>>]) EXCEPT !.pc = "idle"]

\* the parse of one result page in image_search: the largest number of raw
\* entries, and the largest length of the array that carries the URLs
MaxEntries == 2
MaxLen == 4

\* one raw entry, by what parse_google_image reads of it.
\*   walk    "ok" when lines 63-88 find the array src with a string that
\*           starts with http; else the step that yields None
\*   len     src.len()
\*   url     src[2] is a string
\*   title   src[3] is a string
\*   thumbs  l[1][2][0] and l[1][3][0] are strings
Raw(walk, len, url, title, thumbs) ==
    [walk |-> walk, len |-> len, url |-> url, title |-> title, thumbs |-> thumbs]

\* the entries that differ in what parse_google_image does with them
RawEntries ==
    {Raw(w, 1, FALSE, FALSE, FALSE) : w \in {"missing_field", "wrong_type"}}
    \cup {Raw("ok", n, FALSE, FALSE, FALSE) : n \in 1..MaxLen}
    \cup {Raw("ok", n, TRUE, FALSE, FALSE) : n \in 3..MaxLen}
    \cup {Raw("ok", n, TRUE, TRUE, th) : n \in 4..MaxLen, th \in BOOLEAN}

\* lines 62-113: Some(GoogleImage), None, or a panic.  l[..] indexes a
\* serde_json::Value and yields Null when out of range; src is a Vec, and
\* src[2], src[3] panic when it is shorter
parse_google_image(x) ==
    IF x.walk # "ok" THEN "None"
    ELSE IF x.len < 3 THEN "panic"
    ELSE IF ~x.url THEN "None"
    ELSE IF x.len < 4 THEN "panic"
    ELSE IF ~x.title THEN "None"
    ELSE IF ~x.thumbs THEN "None"
    ELSE "Some"

\* image_search at line 147, the JSON of the page parsed; k entries are
\* done, images lists the entries kept, by their index on the page
Parse(entries) ==
    [pc |-> "data", entries |-> entries, k |-> 0, images |-> <<>>,
     fault |-> "none", got |-> "pending"]
NoParse == [Parse(<<>>) EXCEPT !.pc = "idle"]

\* the image loop of create_visual_vocab on its own: the largest number of
\* candidates
MaxCandidates == 4

\* one download: the candidate it fetched and whether get_image gave Ok
Download(id, ok) == [id |-> id, ok |-> ok]

\* line 308, images holding the candidates 1..n in search order; tried
\* lists the downloads made, image is the candidate whose bytes are kept
\* (0 for none)
Picking(n) ==
    [pc |-> "loop", n |-> n, images |-> [k \in 1..n |-> k], tried |-> <<>>,
     image |-> 0]
NoPicking == [Picking(0) EXCEPT !.pc = "idle"]

\* the ranking of one entry in create_visual_vocab: the largest number of
\* definitions of the entry
MaxDefs == 3

\* the definitions an entry is made of: two that score alike against the
\* word, one of them with two examples, two that score lower, one that
\* scores NaN and one without examples
RankedDefs ==
    {Def("DefinitionAndGroupWithExample", "noun", "light", <<"la luz es bonita">>),
     Def("DefinitionAndGroupWithExample", "noun", "light", <<"hay luz", "sin luz">>),
     Def("DefinitionAndGroupWithExample", "noun", "lamp", <<"apaga la luz">>),
     Def("DefinitionAndGroupWithExample", "adjective", "dark", <<"a oscuras">>),
     Def("DefinitionAndGroupWithExample", "", "", <<"luz">>),
     Def("DefinitionAndGroup", "noun", "light", <<>>)}

RankedEntries == SeqsUpTo(RankedDefs, MaxDefs)

\* ------------------------------------------------------------------ state

VARIABLES
    pc,          \* where each spawned task stands
    images,      \* image_search_max / create_visual_vocab: images.len()
    tries,       \* search_vocab: lookups done so far (2 direct, then 2 keyword)
    entry,       \* create_visual_vocab: definition.definitions
    image,       \* create_visual_vocab: the downloaded image
    examples,    \* create_visual_vocab: the (definition text, example) pairs
    dsArgs,      \* deep_search: its arguments
    qEmb,        \* deep_search: query_embedding
    inst,        \* deep_search: the model instance get_or_init handed out
    ret,         \* deep_search: the returned Vec<(usize, f32)>
    out,         \* the JoinHandle output of each task
    result,      \* what create_visual_vocabs returns
    kwCell,      \* KEYWORD_MODEL: 0 unset, else the instance
    kwPermit,    \* KEYWORD_MODEL: the task holding the init permit, or 0
    kwLock,      \* KEYWORD_MODEL mutex: the task holding the guard, or 0
    seCell,      \* SENTENCE_EMBEDDER: 0 unset, else the instance
    sePermit,    \* SENTENCE_EMBEDDER: the task holding the init permit, or 0
    seLock,      \* SENTENCE_EMBEDDER mutex: the task holding the guard, or 0
    seBuilt,     \* number of embedding models constructed so far
    modelInput,  \* the batch the embedding model is running a forward pass on
    seFailed,    \* whether a construction of the embedding model has failed
    ism,         \* one call of image_search_max: its arguments, locals, outcome
    lk,          \* one call of search_vocab: its arguments, locals, outcome
    dict,        \* one call of search_vocab_inner: the page, the blocks done, the outcome
    gimg,        \* one page parse of image_search: the raw entries, those done, the outcome
    pick         \* the image loop of one task: the candidates left, the downloads made

taskVars == <<images, tries, entry, image, examples>>
dsVars == <<dsArgs, qEmb, inst, ret>>
kwVars == <<kwCell, kwPermit, kwLock>>
seVars == <<seCell, sePermit, seLock, seBuilt, modelInput>>
callVars == <<ism, lk, dict, gimg, pick>>
batchVars == <<pc, taskVars, dsVars, out, result, kwVars, seVars, seFailed>>
vars == <<pc, taskVars, dsVars, out, result, kwVars, seVars, seFailed, callVars>>

Running == [status |-> "running", card |-> DefaultCard]
JoinOk(card) == [status |-> "ok", card |-> card]
JoinError == [status |-> "panicked", card |-> DefaultCard]

InitShared ==
    /\ images = [t \in Tasks |-> 0]
    /\ tries = [t \in Tasks |-> 0]
    /\ entry = [t \in Tasks |-> <<>>]
    /\ image = [t \in Tasks |-> "none"]
    /\ examples = [t \in Tasks |-> <<>>]
    /\ qEmb = [t \in Tasks |-> <<>>]
    /\ inst = [t \in Tasks |-> 0]
    /\ ret = [t \in Tasks |-> <<>>]
    /\ out = [t \in Tasks |-> Running]
    /\ result = [returned |-> FALSE, cards |-> <<>>]
    /\ kwCell = 0 /\ kwPermit = 0 /\ kwLock = 0
    /\ seCell = 0 /\ sePermit = 0 /\ seLock = 0 /\ seBuilt = 0
    /\ modelInput = <<>>
    /\ seFailed = FALSE

\* create_visual_vocabs has spawned one task per flashcard
Init ==
    /\ InitShared
    /\ pc = [t \in Tasks |-> "images"]
    /\ dsArgs = [t \in Tasks |-> NoArgs]
    /\ ism = NoCall /\ lk = NoLookup
    /\ dict = NoFetch
    /\ gimg = NoParse
    /\ pick = NoPicking

\* ---------------------------------------------------- locks, cells, ends

\* mutant: a lock that lets every caller in
MutexNeverHeld(lock) == TRUE

\* tokio Mutex::lock().await completes only while nobody holds the guard
MutexFree(lock) == lock = 0

\* mutant: an initializer starts although another one is running
PermitNeverHeld(permit) == TRUE

\* OnceCell::get_or_init runs one initializer at a time (a semaphore permit)
PermitFree(permit) == permit = 0

\* mutant: a guard that outlives the call that took it
ReleaseNever(holder, t) == holder

\* MutexGuard / permit drop: free again if t held it
Release(holder, t) == IF holder = t THEN 0 ELSE holder

\* mutant: a panic leaves the guard behind
UnwoundLeaking(holder, t) == holder

\* a panicking task unwinds, which drops the guards and permits it holds
Unwound(holder, t) == Release(holder, t)

Min(a, b) == IF a < b THEN a ELSE b

\* the locals of task t are dropped when it ends
DropLocals(t) ==
    /\ images' = [images EXCEPT ![t] = 0]
    /\ tries' = [tries EXCEPT ![t] = 0]
    /\ entry' = [entry EXCEPT ![t] = <<>>]
    /\ image' = [image EXCEPT ![t] = "none"]
    /\ examples' = [examples EXCEPT ![t] = <<>>]
    /\ dsArgs' = [dsArgs EXCEPT ![t] = NoArgs]
    /\ qEmb' = [qEmb EXCEPT ![t] = <<>>]
    /\ inst' = [inst EXCEPT ![t] = 0]
    /\ ret' = [ret EXCEPT ![t] = <<>>]

\* a panic inside the spawned task: tokio catches it at the task boundary
\* and the JoinHandle yields Err(JoinError).  A panic in the initializer of
\* SENTENCE_EMBEDDER (lines 400-411) is a construction that failed
Panic(t) ==
    /\ pc' = [pc EXCEPT ![t] = "panicked"]
    /\ out' = [out EXCEPT ![t] = JoinError]
    /\ kwLock' = Unwound(kwLock, t)
    /\ kwPermit' = Unwound(kwPermit, t)
    /\ seLock' = Unwound(seLock, t)
    /\ sePermit' = Unwound(sePermit, t)
    /\ DropLocals(t)
    /\ seFailed' = (seFailed \/ pc[t] = "ds_build")
    /\ UNCHANGED <<result, callVars, kwCell, seCell, seBuilt, modelInput>>

\* create_visual_vocab returned Err: lines 277-280 log it and yield the
\* default card
ReturnErr(t) ==
    /\ pc' = [pc EXCEPT ![t] = "done"]
    /\ out' = [out EXCEPT ![t] = JoinOk(DefaultCard)]
    /\ kwLock' = Release(kwLock, t)
    /\ DropLocals(t)
    /\ UNCHANGED <<result, seFailed, callVars, kwCell, kwPermit, seVars>>

\* ------------------------------------------------------ image_search_max

\* one turn of the while loop of image_search_max (max is
\* IMAGE_RANDOM_POOL_SIZE), with the truncate and return once it ends.
\* image_search has no Err return: a failed fetch or parse panics.
ImageSearchPage(t) ==
    /\ pc[t] = "images"
    /\ \E panics \in BOOLEAN, n \in PageSizes :
          IF panics THEN Panic(t)
          ELSE LET offset == images[t] + n
                   over == n = 0 \/ ~(offset < IMAGE_RANDOM_POOL_SIZE)
               IN  /\ images' = [images EXCEPT ![t] =
                         IF over THEN Min(offset, IMAGE_RANDOM_POOL_SIZE) ELSE offset]
                   /\ pc' = [pc EXCEPT ![t] = IF over THEN "sv_get" ELSE "images"]
                   /\ UNCHANGED <<tries, entry, image, examples, dsVars, out,
                                  result, seFailed, callVars, kwVars, seVars>>

\* image_search_max(query, max) on its own, for any max

\* a loop that gives up one candidate short of max
LoopCondShort(offset, max) == offset + 1 < max

\* line 164: while offset < max
LoopCond(offset, max) == offset < max

\* a return that leaves the overshoot in
NoTruncate(len, max) == len

\* lines 172-174: images.truncate(max) when images.len() > max
Truncate(len, max) == IF len > max THEN max ELSE len

\* lines 165-170: one image_search call.  It returns a page of n images
\* (an empty one breaks the loop, any other is appended), or it panics and
\* image_search_max unwinds, dropping images
IsmPage ==
    /\ ism.pc = "loop"
    /\ LoopCond(ism.offset, ism.max)
    /\ \/ \E n \in 0..MaxPage :
             ism' = [ism EXCEPT !.last = n,
                                !.offset = @ + n,
                                !.images = @ + n,
                                !.pc = IF n = 0 THEN "after" ELSE "loop"]
       \/ \E f \in Faults :
             ism' = [ism EXCEPT !.fault = f,
                                !.images = 0,
                                !.got = Unwinding,
                                !.pc = "panicked"]
    /\ UNCHANGED <<batchVars, lk, dict, gimg, pick>>

\* line 164: the loop condition fails
IsmLoopEnd ==
    /\ ism.pc = "loop"
    /\ ~LoopCond(ism.offset, ism.max)
    /\ ism' = [ism EXCEPT !.pc = "after"]
    /\ UNCHANGED <<batchVars, lk, dict, gimg, pick>>

\* lines 172-175: truncate and return Ok(images)
IsmReturn ==
    /\ ism.pc = "after"
    /\ ism' = [ism EXCEPT !.images = Truncate(@, ism.max),
                          !.got = OkImages(Truncate(ism.images, ism.max)),
                          !.pc = "returned"]
    /\ UNCHANGED <<batchVars, lk, dict, gimg, pick>>

\* the parse of one page in image_search, entry by entry

\* lines 147-149: data.as_array().unwrap()
GimgData ==
    /\ gimg.pc = "data"
    /\ \/ gimg' = [gimg EXCEPT !.pc = "entries"]
       \/ gimg' = [gimg EXCEPT !.fault = "not_array", !.got = "panic",
                               !.pc = "panicked"]
    /\ UNCHANGED <<batchVars, ism, lk, dict, pick>>

\* lines 150-152: one turn of filter_map(parse_google_image)
GimgEntry ==
    /\ gimg.pc = "entries"
    /\ gimg.k < Len(gimg.entries)
    /\ LET r == parse_google_image(gimg.entries[gimg.k + 1])
       IN  CASE r = "panic" ->
                   gimg' = [gimg EXCEPT !.k = @ + 1, !.fault = "entry",
                                        !.images = <<>>, !.got = "panic",
                                        !.pc = "panicked"]
             [] r = "None" ->
                   gimg' = [gimg EXCEPT !.k = @ + 1]
             [] OTHER ->
                   gimg' = [gimg EXCEPT !.k = @ + 1,
                                        !.images = Append(@, gimg.k + 1)]
    /\ UNCHANGED <<batchVars, ism, lk, dict, pick>>

\* lines 153-155: collect and Ok(images)
GimgReturn ==
    /\ gimg.pc = "entries"
    /\ gimg.k = Len(gimg.entries)
    /\ gimg' = [gimg EXCEPT !.got = "ok", !.pc = "returned"]
    /\ UNCHANGED <<batchVars, ism, lk, dict, pick>>

\* ------------------------------------------------------------ search_vocab

\* KEYWORD_MODEL.get_or_init: the value if set, else the permit to build it
SvGetOrInit(t) ==
    /\ pc[t] = "sv_get"
    /\ IF kwCell # 0
          THEN /\ pc' = [pc EXCEPT ![t] = "sv_lock"]
               /\ UNCHANGED kwPermit
          ELSE /\ PermitFree(kwPermit)
               /\ kwPermit' = t
               /\ pc' = [pc EXCEPT ![t] = "sv_build"]
    /\ UNCHANGED <<taskVars, dsVars, out, result, seFailed, callVars, kwCell, kwLock, seVars>>

\* KeywordExtractionModel::new(..).expect(..) inside spawn_blocking
SvBuild(t) ==
    /\ pc[t] = "sv_build"
    /\ \E ok \in BOOLEAN :
          IF ok
          THEN /\ kwCell' = 1
               /\ kwPermit' = Release(kwPermit, t)
               /\ pc' = [pc EXCEPT ![t] = "sv_lock"]
               /\ UNCHANGED <<taskVars, dsVars, out, result, seFailed, callVars, kwLock, seVars>>
          ELSE Panic(t)

\* mutant: the lookups start without the guard
SvLockSkipped(t) ==
    /\ pc[t] = "sv_lock"
    /\ pc' = [pc EXCEPT ![t] = "sv_try"]
    /\ UNCHANGED <<taskVars, dsVars, out, result, seFailed, callVars, kwVars, seVars>>

\* let model = _lock.await
SvLock(t) ==
    /\ pc[t] = "sv_lock"
    /\ MutexFree(kwLock)
    /\ kwLock' = t
    /\ pc' = [pc EXCEPT ![t] = "sv_try"]
    /\ UNCHANGED <<taskVars, dsVars, out, result, seFailed, callVars, kwCell, kwPermit, seVars>>

\* what follows one search_vocab_inner call inside search_vocab
AfterLookup(t, r) ==
    IF r.panic THEN Panic(t)
    ELSE IF r.definitions = <<>>
    THEN /\ tries' = [tries EXCEPT ![t] = @ + 1]
         /\ UNCHANGED <<pc, images, entry, image, examples, dsVars, out,
                        result, seFailed, callVars, kwVars, seVars>>
    ELSE /\ entry' = [entry EXCEPT ![t] = r.definitions]
         /\ tries' = [tries EXCEPT ![t] = 0]
         /\ kwLock' = Release(kwLock, t)
         /\ pc' = [pc EXCEPT ![t] = "pick"]
         /\ UNCHANGED <<images, image, examples, dsVars, out, result, seFailed, callVars,
                        kwCell, kwPermit, seVars>>

\* one turn of the first loop: a direct lookup of the word
SvDirect(t) ==
    /\ pc[t] = "sv_try"
    /\ tries[t] < 2
    /\ \E r \in LookupOutcomes : AfterLookup(t, r)

\* one turn of the second loop: predict a keyword and look it up
SvKeyword(t) ==
    /\ pc[t] = "sv_try"
    /\ tries[t] \in 2..3
    /\ \E prediction \in {"Err", "None", "NoKeyword", "Keyword"} :
          CASE prediction = "Err" -> ReturnErr(t)
            [] prediction = "Keyword" ->
                  \E r \in LookupOutcomes : AfterLookup(t, r)
            [] OTHER ->
                  /\ tries' = [tries EXCEPT ![t] = @ + 1]
                  /\ UNCHANGED <<pc, images, entry, image, examples, dsVars,
                                 out, result, seFailed, callVars, kwVars, seVars>>

\* both loops are over: Err("failed to search for word")
SvExhausted(t) ==
    /\ pc[t] = "sv_try"
    /\ tries[t] = 4
    /\ ReturnErr(t)

\* search_vocab(word) on its own, the texts it looks up kept

\* an entry passed over whatever it holds
FoundNever(definitions) == FALSE

\* lines 76 and 101: !entry.definitions.is_empty()
Found(definitions) == definitions # <<>>

\* lines 58-72: the keyword model is there and locked, or loading it
\* panics
LkLoad ==
    /\ lk.pc = "load"
    /\ \/ lk' = [lk EXCEPT !.pc = "direct"]
       \/ lk' = [lk EXCEPT !.fault = "model", !.got = UnwoundEntry,
                           !.pc = "panicked"]
    /\ UNCHANGED <<batchVars, ism, dict, gimg, pick>>

\* what follows one search_vocab_inner(text) call in either loop: the
\* fetch or the parse panics, or an entry comes back and is returned when
\* it has definitions
LkAfter(loop, text, r) ==
    IF r.panic
    THEN lk' = [lk EXCEPT !.fault = "lookup", !.got = UnwoundEntry,
                          !.pc = "panicked"]
    ELSE IF Found(r.definitions)
    THEN lk' = [lk EXCEPT !.attempts = Append(@, Attempt(loop, text, r.definitions)),
                          !.got = OkEntry(r.definitions),
                          !.pc = "returned"]
    ELSE lk' = [lk EXCEPT !.attempts = Append(@, Attempt(loop, text, r.definitions)),
                          !.i = @ + 1]

\* lines 73-86: one turn of for _ in 0..2, looking up the word
LkDirect ==
    /\ lk.pc = "direct"
    /\ lk.i < 2
    /\ \E r \in LookupOutcomes : LkAfter("direct", lk.word, r)
    /\ UNCHANGED <<batchVars, ism, dict, gimg, pick>>

\* the first loop is over
LkDirectEnd ==
    /\ lk.pc = "direct"
    /\ lk.i = 2
    /\ lk' = [lk EXCEPT !.pc = "keyword", !.i = 0]
    /\ UNCHANGED <<batchVars, ism, dict, gimg, pick>>

\* lines 87-116: one turn of the second for _ in 0..2.  predict fails and
\* the ? returns the error; or prediction.get(0) is None; or keyword.get(0)
\* is None and the turn is skipped; or keyword.get(0) is looked up
LkKeyword ==
    /\ lk.pc = "keyword"
    /\ lk.i < 2
    /\ \/ lk' = [lk EXCEPT !.fault = "predict", !.got = ErrEntry,
                           !.pc = "returned"]
       \/ /\ lk.prediction = <<>>
          /\ lk' = [lk EXCEPT !.i = @ + 1]
       \/ /\ lk.prediction # <<>>
          /\ LET keyword == lk.prediction[1]
             IN  IF keyword = <<>>
                 THEN lk' = [lk EXCEPT !.i = @ + 1]
                 ELSE \E r \in LookupOutcomes : LkAfter("keyword", keyword[1], r)
    /\ UNCHANGED <<batchVars, ism, dict, gimg, pick>>

\* lines 118-121: both loops are over
LkExhausted ==
    /\ lk.pc = "keyword"
    /\ lk.i = 2
    /\ lk' = [lk EXCEPT !.got = ErrEntry, !.pc = "returned"]
    /\ UNCHANGED <<batchVars, ism, dict, gimg, pick>>

\* search_vocab_inner on its own, block by block

\* lines 130-138: the page is fetched and parsed, or the fetch panics
DictFetch ==
    /\ dict.pc = "fetch"
    /\ \/ dict' = [dict EXCEPT !.pc = "blocks"]
       \/ dict' = [dict EXCEPT !.fault = "fetch", !.got = "panic",
                               !.pc = "panicked"]
    /\ UNCHANGED <<batchVars, ism, lk, gimg, pick>>

\* lines 143-255: one turn over the next block
DictBlock ==
    /\ dict.pc = "blocks"
    /\ dict.k < Len(dict.page.blocks)
    /\ LET r == Handle(dict.page, dict.k + 1)
       IN  IF r.panic
           THEN dict' = [dict EXCEPT !.k = @ + 1, !.fault = "block",
                                     !.definitions = <<>>, !.got = "panic",
                                     !.pc = "panicked"]
           ELSE dict' = [dict EXCEPT !.k = @ + 1,
                                     !.definitions = @ \o r.pushed]
    /\ UNCHANGED <<batchVars, ism, lk, gimg, pick>>

\* lines 256-259: Ok(DictionaryEntry { word, definitions })
DictReturn ==
    /\ dict.pc = "blocks"
    /\ dict.k = Len(dict.page.blocks)
    /\ dict' = [dict EXCEPT !.got = "ok", !.pc = "returned"]
    /\ UNCHANGED <<batchVars, ism, lk, gimg, pick>>

\* ----------------------------------------------------- create_visual_vocab

\* one turn of the image loop: remove a random image (the remainder by
\* images.len() panics on an empty Vec) and try to download it
PickImage(t) ==
    /\ pc[t] = "pick"
    /\ IF images[t] = 0 THEN Panic(t)
       ELSE \E ok \in BOOLEAN :
               \* the Vec is not read again once an image is there
               /\ images' = [images EXCEPT ![t] = IF ok THEN 0 ELSE @ - 1]
               /\ image' = [image EXCEPT ![t] = IF ok THEN "bytes" ELSE "none"]
               /\ pc' = [pc EXCEPT ![t] = IF ok THEN "examples" ELSE "pick"]
               /\ UNCHANGED <<tries, entry, examples, dsVars, out, result, seFailed, callVars,
                              kwVars, seVars>>

\* the image loop of lines 308-324 on its own, the candidates told apart

\* a Vec that keeps the element it hands out
KeepAt(v, index) == v

\* Vec::remove(index), index counted from 0: the elements after it shift
\* down
RemoveAt(v, index) ==
    [k \in 1..(Len(v) - 1) |-> IF k <= index THEN v[k] ELSE v[k + 1]]

\* lines 309-317: one turn.  random::<usize>() % images.len() is any index
\* of the Vec; the candidate there is removed and downloaded, and Ok
\* breaks the loop with its bytes
PkTurn ==
    /\ pick.pc = "loop"
    /\ pick.images # <<>>
    /\ \E index \in 0..(Len(pick.images) - 1), ok \in BOOLEAN :
          LET img == pick.images[index + 1]
          IN  pick' = [pick EXCEPT !.images = RemoveAt(@, index),
                                   !.tried = Append(@, Download(img, ok)),
                                   !.image = IF ok THEN img ELSE @,
                                   !.pc = IF ok THEN "found" ELSE "loop"]
    /\ UNCHANGED <<batchVars, ism, lk, dict, gimg>>

\* line 309 on an empty Vec: the remainder by images.len() = 0 panics
PkEmpty ==
    /\ pick.pc = "loop"
    /\ pick.images = <<>>
    /\ pick' = [pick EXCEPT !.pc = "panicked"]
    /\ UNCHANGED <<batchVars, ism, lk, dict, gimg>>

\* lines 319-325: the match on Some(img)
PkFound ==
    /\ pick.pc = "found"
    /\ pick' = [pick EXCEPT !.pc = "picked"]
    /\ UNCHANGED <<batchVars, ism, lk, dict, gimg>>

\* lines 327-364: collect the pairs and call deep_search(word, texts, 1, 0.0)
CollectExamples(t) ==
    /\ pc[t] = "examples"
    /\ LET pairs == ExamplesOf(entry[t])
       IN  /\ examples' = [examples EXCEPT ![t] = pairs]
           /\ dsArgs' = [dsArgs EXCEPT ![t] =
                 Args(vocabs[t].word, [k \in 1..Len(pairs) |-> pairs[k][1]],
                      1, F32(0, 1))]
    /\ entry' = [entry EXCEPT ![t] = <<>>]
    /\ pc' = [pc EXCEPT ![t] = "ds_enter"]
    /\ UNCHANGED <<images, tries, image, qEmb, inst, ret, out, result, seFailed, callVars,
                   kwVars, seVars>>

\* a card made of the example of the first pair, whatever the ranking
MakeCardUnranked(t) ==
    /\ pc[t] = "ds_ret"
    /\ IF ret[t] = <<>> THEN Panic(t)
       ELSE /\ out' = [out EXCEPT ![t] = JoinOk(VisualFlashCard(
                   vocabs[t].word, vocabs[t].definition, image[t],
                   examples[t][1][2]))]
            /\ pc' = [pc EXCEPT ![t] = "done"]
            /\ DropLocals(t)
            /\ UNCHANGED <<result, seFailed, callVars, kwVars, seVars>>

\* lines 365-374: examples[rank[0].0].1 (panics on an empty rank), then the
\* card
MakeCard(t) ==
    /\ pc[t] = "ds_ret"
    /\ IF ret[t] = <<>> THEN Panic(t)
       ELSE /\ out' = [out EXCEPT ![t] = JoinOk(VisualFlashCard(
                   vocabs[t].word, vocabs[t].definition, image[t],
                   examples[t][ret[t][1][1] + 1][2]))]
            /\ pc' = [pc EXCEPT ![t] = "done"]
            /\ DropLocals(t)
            /\ UNCHANGED <<result, seFailed, callVars, kwVars, seVars>>

\* the cards placed last-finished-handle first
JoinedBackwards(outs) ==
    LET Ok(o) == o.status = "ok"
        kept == SelectSeq([i \in 1..NumTasks |-> outs[NumTasks + 1 - i]], Ok)
    IN  [k \in 1..Len(kept) |-> kept[k].card]

\* join_all(..).filter_map(|res| res.ok()).collect()
Joined(outs) ==
    LET Ok(o) == o.status = "ok"
        kept == SelectSeq([i \in 1..NumTasks |-> outs[i]], Ok)
    IN  [k \in 1..Len(kept) |-> kept[k].card]

Join ==
    /\ ~result.returned
    /\ \A t \in Tasks : out[t].status # "running"
    /\ result' = [returned |-> TRUE, cards |-> Joined(out)]
    /\ UNCHANGED <<pc, taskVars, dsVars, out, kwVars, seVars, seFailed, callVars>>

\* ------------------------------------------------------------ deep_search

\* deep_search without the check of lines 392-396: every call goes on to
\* the model
DsEnterUnchecked(t) ==
    /\ pc[t] = "ds_enter"
    /\ pc' = [pc EXCEPT ![t] = "ds_get"]
    /\ UNCHANGED <<taskVars, dsVars, out, result, seFailed, callVars, kwVars, seVars>>

\* lines 392-396: an empty contents returns at once
DsEnter(t) ==
    /\ pc[t] = "ds_enter"
    /\ IF dsArgs[t].contents = <<>>
          THEN /\ ret' = [ret EXCEPT ![t] = <<>>]
               /\ pc' = [pc EXCEPT ![t] = "ds_ret"]
          ELSE /\ pc' = [pc EXCEPT ![t] = "ds_get"]
               /\ UNCHANGED ret
    /\ UNCHANGED <<taskVars, dsArgs, qEmb, inst, out, result, seFailed, callVars, kwVars, seVars>>

\* SENTENCE_EMBEDDER.get_or_init: the value if set, else the permit to
\* build it
DsGetOrInit(t) ==
    /\ pc[t] = "ds_get"
    /\ IF seCell # 0
          THEN /\ inst' = [inst EXCEPT ![t] = seCell]
               /\ pc' = [pc EXCEPT ![t] = "ds_lock"]
               /\ UNCHANGED sePermit
          ELSE /\ PermitFree(sePermit)
               /\ sePermit' = t
               /\ pc' = [pc EXCEPT ![t] = "ds_build"]
               /\ UNCHANGED inst
    /\ UNCHANGED <<taskVars, dsArgs, qEmb, ret, out, result, seFailed, callVars, kwVars,
                   seCell, seLock, seBuilt, modelInput>>

\* lines 400-411: create_model().expect(..) inside spawn_blocking; the cell
\* is set with the new instance, or the initializer panics
DsBuild(t) ==
    /\ pc[t] = "ds_build"
    /\ \E ok \in BOOLEAN :
          IF ok
          THEN /\ seBuilt' = seBuilt + 1
               /\ seCell' = seBuilt + 1
               /\ inst' = [inst EXCEPT ![t] = seBuilt + 1]
               /\ sePermit' = Release(sePermit, t)
               /\ pc' = [pc EXCEPT ![t] = "ds_lock"]
               /\ UNCHANGED <<taskVars, dsArgs, qEmb, ret, out, result, seFailed, callVars,
                              kwVars, seLock, modelInput>>
          ELSE Panic(t)

\* lines 414-415: .lock().await
DsLock(t) ==
    /\ pc[t] = "ds_lock"
    /\ MutexFree(seLock)
    /\ seLock' = t
    /\ pc' = [pc EXCEPT ![t] = "ds_encq"]
    /\ UNCHANGED <<taskVars, dsVars, out, result, seFailed, callVars, kwVars,
                   seCell, sePermit, seBuilt, modelInput>>

\* model.encode(&[query]): the forward pass starts on the query
DsEncodeQuery(t) ==
    /\ pc[t] = "ds_encq"
    /\ modelInput' = <<dsArgs[t].query>>
    /\ pc' = [pc EXCEPT ![t] = "ds_encq_run"]
    /\ UNCHANGED <<taskVars, dsVars, out, result, seFailed, callVars, kwVars,
                   seCell, sePermit, seLock, seBuilt>>

\* .expect("should have encoded query")[0].to_owned()
DsQueryEncoded(t) ==
    /\ pc[t] = "ds_encq_run"
    /\ \E ok \in BOOLEAN :
          LET embeddings == Encode(modelInput)
          IN  IF ~ok \/ embeddings = <<>> THEN Panic(t)
              ELSE /\ qEmb' = [qEmb EXCEPT ![t] = embeddings[1]]
                   /\ modelInput' = <<>>
                   /\ pc' = [pc EXCEPT ![t] = "ds_encc"]
                   /\ UNCHANGED <<taskVars, dsArgs, inst, ret, out, result, seFailed, callVars,
                                  kwVars, seCell, sePermit, seLock, seBuilt>>

\* model.encode(contents): the forward pass starts on the contents
DsEncodeContents(t) ==
    /\ pc[t] = "ds_encc"
    /\ modelInput' = dsArgs[t].contents
    /\ pc' = [pc EXCEPT ![t] = "ds_encc_run"]
    /\ UNCHANGED <<taskVars, dsVars, out, result, seFailed, callVars, kwVars,
                   seCell, sePermit, seLock, seBuilt>>

\* .expect("should have encoded contents"), then lines 422-442; the guard
\* is dropped when deep_search returns
DsRank(t) ==
    /\ pc[t] = "ds_encc_run"
    /\ \E ok \in BOOLEAN :
          LET r == Rank(qEmb[t], Encode(modelInput),
                        dsArgs[t].limit, dsArgs[t].threshold)
          IN  IF ~ok \/ r.panic THEN Panic(t)
              ELSE /\ ret' = [ret EXCEPT ![t] = r.results]
                   /\ modelInput' = <<>>
                   /\ seLock' = Release(seLock, t)
                   /\ pc' = [pc EXCEPT ![t] = "ds_ret"]
                   /\ UNCHANGED <<taskVars, dsArgs, qEmb, inst, out, result, seFailed, callVars,
                                  kwVars, seCell, sePermit, seBuilt>>

DeepSearch(t) ==
    \/ DsEnter(t)
    \/ DsGetOrInit(t)
    \/ DsBuild(t)
    \/ DsLock(t)
    \/ DsEncodeQuery(t)
    \/ DsQueryEncoded(t)
    \/ DsEncodeContents(t)
    \/ DsRank(t)

\* ---------------------------------------------------------- specifications

\* the batch: create_visual_vocabs over vocabs
TaskStep(t) ==
    \/ ImageSearchPage(t)
    \/ SvGetOrInit(t)
    \/ SvBuild(t)
    \/ SvLock(t)
    \/ SvDirect(t)
    \/ SvKeyword(t)
    \/ SvExhausted(t)
    \/ PickImage(t)
    \/ CollectExamples(t)
    \/ DeepSearch(t)
    \/ MakeCard(t)

Next ==
    \/ \E t \in Tasks : TaskStep(t)
    \/ Join

Spec == Init /\ [][Next]_vars

\* the batch under the tokio scheduler: a task that can step is polled
\* again, every call it awaits returns, and join_all is polled once the
\* handles are ready
FairSpec ==
    /\ Spec
    /\ \A t \in Tasks : WF_vars(TaskStep(t))
    /\ WF_vars(Join)

\* the ranking harness: one caller of deep_search, on arguments drawn from
\* RankArgs
InitRank ==
    /\ InitShared
    /\ pc = [t \in Tasks |-> IF t = 1 THEN "ds_enter" ELSE "idle"]
    /\ \E a \in RankArgs : dsArgs = [t \in Tasks |-> IF t = 1 THEN a ELSE NoArgs]
    /\ ism = NoCall /\ lk = NoLookup
    /\ dict = NoFetch
    /\ gimg = NoParse
    /\ pick = NoPicking

NextRank == \E t \in Tasks : DeepSearch(t)

SpecRank == InitRank /\ [][NextRank]_vars

\* image_search_max called on its own with any max up to MaxMax
InitSearchMax ==
    /\ InitShared
    /\ pc = [t \in Tasks |-> "idle"]
    /\ dsArgs = [t \in Tasks |-> NoArgs]
    /\ \E max \in 0..MaxMax : ism = Call(max)
    /\ lk = NoLookup
    /\ dict = NoFetch
    /\ gimg = NoParse
    /\ pick = NoPicking

NextSearchMax == IsmPage \/ IsmLoopEnd \/ IsmReturn

SpecSearchMax == InitSearchMax /\ [][NextSearchMax]_vars

\* search_vocab called on its own
InitLookup ==
    /\ InitShared
    /\ pc = [t \in Tasks |-> "idle"]
    /\ dsArgs = [t \in Tasks |-> NoArgs]
    /\ ism = NoCall
    /\ \E w \in Words, p \in Predictions : lk = Lookup(w, p)
    /\ dict = NoFetch
    /\ gimg = NoParse
    /\ pick = NoPicking

NextLookup == LkLoad \/ LkDirect \/ LkDirectEnd \/ LkKeyword \/ LkExhausted

SpecLookup == InitLookup /\ [][NextLookup]_vars

\* search_vocab_inner called on its own on any page of Pages
InitDict ==
    /\ InitShared
    /\ pc = [t \in Tasks |-> "idle"]
    /\ dsArgs = [t \in Tasks |-> NoArgs]
    /\ ism = NoCall /\ lk = NoLookup
    /\ \E page \in Pages : dict = Fetch(page)
    /\ gimg = NoParse
    /\ pick = NoPicking

NextDict == DictFetch \/ DictBlock \/ DictReturn

SpecDict == InitDict /\ [][NextDict]_vars

\* the parse of one page of image_search, on any page of raw entries
InitParse ==
    /\ InitShared
    /\ pc = [t \in Tasks |-> "idle"]
    /\ dsArgs = [t \in Tasks |-> NoArgs]
    /\ ism = NoCall /\ lk = NoLookup /\ dict = NoFetch
    /\ \E entries \in SeqsUpTo(RawEntries, MaxEntries) : gimg = Parse(entries)
    /\ pick = NoPicking

NextParse == GimgData \/ GimgEntry \/ GimgReturn

SpecParse == InitParse /\ [][NextParse]_vars

\* the image loop on its own, over any number of candidates
InitPick ==
    /\ InitShared
    /\ pc = [t \in Tasks |-> "idle"]
    /\ dsArgs = [t \in Tasks |-> NoArgs]
    /\ ism = NoCall /\ lk = NoLookup /\ dict = NoFetch /\ gimg = NoParse
    /\ \E n \in 0..MaxCandidates : pick = Picking(n)

NextPick == PkTurn \/ PkEmpty \/ PkFound

SpecPick == InitPick /\ [][NextPick]_vars

\* create_visual_vocab from line 327 on, for one task: the image is there,
\* the entry is any of RankedEntries
InitCard ==
    /\ pc = [t \in Tasks |-> IF t = 1 THEN "examples" ELSE "idle"]
    /\ \E e \in RankedEntries : entry = [t \in Tasks |-> IF t = 1 THEN e ELSE <<>>]
    /\ image = [t \in Tasks |-> IF t = 1 THEN "bytes" ELSE "none"]
    /\ images = [t \in Tasks |-> 0]
    /\ tries = [t \in Tasks |-> 0]
    /\ examples = [t \in Tasks |-> <<>>]
    /\ dsArgs = [t \in Tasks |-> NoArgs]
    /\ qEmb = [t \in Tasks |-> <<>>]
    /\ inst = [t \in Tasks |-> 0]
    /\ ret = [t \in Tasks |-> <<>>]
    /\ out = [t \in Tasks |-> Running]
    /\ result = [returned |-> FALSE, cards |-> <<>>]
    /\ kwCell = 1 /\ kwPermit = 0 /\ kwLock = 0
    /\ seCell = 0 /\ sePermit = 0 /\ seLock = 0 /\ seBuilt = 0
    /\ modelInput = <<>>
    /\ seFailed = FALSE
    /\ ism = NoCall /\ lk = NoLookup /\ dict = NoFetch /\ gimg = NoParse
    /\ pick = NoPicking

NextCard == \E t \in Tasks : CollectExamples(t) \/ DeepSearch(t) \/ MakeCard(t)

SpecCard == InitCard /\ [][NextCard]_vars

\* the concurrency harness of test_deep_search: every task calls deep_search
\* on the same arguments
ConcArgs ==
    {Args("luz", c, l, F32(0, 1)) :
        c \in SeqsUpTo({"light (noun)", "lamp (noun)", ""}, 2), l \in {0, 1}}

InitConc ==
    /\ InitShared
    /\ pc = [t \in Tasks |-> "ds_enter"]
    /\ \E a \in ConcArgs : dsArgs = [t \in Tasks |-> a]
    /\ ism = NoCall /\ lk = NoLookup
    /\ dict = NoFetch
    /\ gimg = NoParse
    /\ pick = NoPicking

SpecConc == InitConc /\ [][NextRank]_vars

\* ------------------------------------------------------------------ claims

Terminated(t) == pc[t] \in {"done", "panicked"}

\* t is between acquiring the model lock and the end of its encode calls
InModel(t) == pc[t] \in {"ds_encq", "ds_encq_run", "ds_encc", "ds_encc_run"}

\* t has the model from get_or_init
HasModel(t) == pc[t] = "ds_lock" \/ InModel(t)

\* C1: create_visual_vocabs returns exactly one record per input flashcard,
\* whatever the per-word outcomes (success, returned error, panic).
C1_OneOutputPerInput ==
    result.returned => Len(result.cards) = NumTasks

\* C2: a task whose image candidates are exhausted without a successful
\* download (the list was empty, or every download failed) ends with the
\* placeholder record, not with a crash.
C2_NoImageYieldsPlaceholder ==
    [][\A t \in Tasks :
          (pc[t] = "pick" /\ images[t] = 0 /\ pc'[t] # "pick")
             => out'[t] = JoinOk(DefaultCard)]_vars

\* C3: batch isolation.  A task that has ended, by return or by panic,
\* holds no lock and no init permit a sibling could wait for; a task whose
\* siblings have all ended, however they ended, can take its next step as
\* if it ran alone; and every card a task delivered is in the output of the
\* batch, whatever became of the other tasks.
C3_BatchIsolation ==
    /\ \A t \in Tasks :
          Terminated(t) => kwLock # t /\ seLock # t /\ kwPermit # t /\ sePermit # t
    /\ \A t \in Tasks :
          (~Terminated(t) /\ \A u \in Tasks \ {t} : Terminated(u))
             => ENABLED TaskStep(t)
    /\ result.returned =>
          \A t \in Tasks :
             (out[t].status = "ok" /\ out[t].card # DefaultCard)
                => \E k \in 1..Len(result.cards) : result.cards[k] = out[t].card

\* C3 witness: the batch has returned, one task panicked and a sibling's
\* card is delivered.
C3_Witness ==
    /\ result.returned
    /\ \E t, u \in Tasks :
          /\ out[t] = JoinError
          /\ out[u].status = "ok" /\ out[u].card # DefaultCard
          /\ \E k \in 1..Len(result.cards) : result.cards[k] = out[u].card

\* C4: every record handed downstream has a non-empty image and a non-empty
\* example.
C4_CardsNonEmpty ==
    result.returned =>
       \A k \in 1..Len(result.cards) :
          result.cards[k].image # "none" /\ result.cards[k].example # ""

\* C5 as stated: once a construction of the embedding model has ended,
\* exactly one construction has completed successfully.
C5_ExactlyOneConstruction ==
    [][\A t \in Tasks :
          (pc[t] = "ds_build" /\ pc'[t] # "ds_build") => seBuilt' = 1]_vars

\* C5 amended: at most one construction of the embedding model ever
\* completes, a construction runs only inside a deep_search call with
\* non-empty contents, and every caller that got the model from get_or_init
\* holds the one instance that was constructed.
C5_AtMostOnceShared ==
    /\ seBuilt <= 1
    /\ seCell = seBuilt
    /\ sePermit # 0 =>
          pc[sePermit] = "ds_build" /\ dsArgs[sePermit].contents # <<>>
    /\ \A t \in Tasks : pc[t] = "ds_build" => sePermit = t
    /\ \A t \in Tasks : HasModel(t) => seBuilt = 1 /\ inst[t] = seCell

\* C5 witness: two callers hold the model at once, after a first call built
\* it.
C5_Witness ==
    \E t, u \in Tasks :
       t # u /\ HasModel(t) /\ HasModel(u) /\ inst[t] = 1 /\ inst[u] = 1

\* C6: at most one task is between acquiring the model lock and the end of
\* its encode calls, it is the holder of the lock, and the forward pass the
\* model is running is that task's.
C6_EncodeMutex ==
    /\ \A t, u \in Tasks : (InModel(t) /\ InModel(u)) => t = u
    /\ \A t \in Tasks : InModel(t) <=> seLock = t
    /\ \A t \in Tasks :
          /\ pc[t] = "ds_encq_run" => modelInput = <<dsArgs[t].query>>
          /\ pc[t] = "ds_encc_run" => modelInput = dsArgs[t].contents

\* C6 witness: one task is encoding while another waits for the lock.
C6_Witness ==
    \E t, u \in Tasks : pc[t] = "ds_encc_run" /\ pc[u] = "ds_lock"

\* the scores deep_search computes for its arguments
ScoresOf(a) ==
    [i \in 1..Len(a.contents) |->
        cos_similarity(Embed(a.query), Embed(a.contents[i]))]

\* C7: for non-empty contents and threshold -1, the ranking step of
\* deep_search does not fail, whatever the limit, and deep_search returns
\* min(limit, |contents|) items for limit > 0 and all |contents| items for
\* limit = 0.
C7_RankLength ==
    \A t \in Tasks :
       (dsArgs[t].contents # <<>> /\ dsArgs[t].threshold = F32(-1, 1)) =>
          /\ pc[t] = "ds_encc_run" =>
                ~Rank(qEmb[t], Encode(modelInput),
                      dsArgs[t].limit, dsArgs[t].threshold).panic
          /\ pc[t] = "ds_ret" =>
                Len(ret[t]) =
                   IF dsArgs[t].limit = 0 THEN Len(dsArgs[t].contents)
                   ELSE Min(dsArgs[t].limit, Len(dsArgs[t].contents))

\* C8: what deep_search returns is sorted by score descending, and of two
\* returned candidates with equal score the one with the lower original
\* index comes first.
C8_SortedStable ==
    \A t \in Tasks :
       pc[t] = "ds_ret" =>
          \A i, j \in 1..Len(ret[t]) :
             i < j =>
                \/ PartialCmp(ret[t][i][2], ret[t][j][2]) = "Greater"
                \/ /\ PartialCmp(ret[t][i][2], ret[t][j][2]) = "Equal"
                   /\ ret[t][i][1] < ret[t][j][1]

\* C8 witness: a returned ranking of three candidates with a tie in it,
\* whose best candidate was not first in the input.
C8_Witness ==
    \E t \in Tasks :
       /\ pc[t] = "ds_ret" /\ Len(ret[t]) = 3
       /\ ret[t][1][1] # 0
       /\ PartialCmp(ret[t][2][2], ret[t][3][2]) = "Equal"
       /\ PartialCmp(ret[t][1][2], ret[t][2][2]) = "Greater"

\* C9: the comparison step of deep_search never panics on a NaN score:
\* whatever the scores and the threshold, no NaN is among the candidates the
\* sort compares, and none is ranked in what is returned.
C9_SortMeetsNoNaN ==
    \A t \in Tasks :
       /\ pc[t] = "ds_encc_run" =>
             LET similarities == [i \in 1..Len(modelInput) |->
                                    cos_similarity(qEmb[t], Embed(modelInput[i]))]
             IN  ~SortPanics(Kept(similarities, dsArgs[t].threshold))
       /\ pc[t] = "ds_ret" =>
             \A i \in 1..Len(ret[t]) : ~IsNaN(ret[t][i][2])

\* C9 witness: deep_search has returned two or more sorted candidates for
\* contents of which one scored NaN.
C9_Witness ==
    \E t \in Tasks :
       /\ pc[t] = "ds_ret" /\ Len(ret[t]) >= 2
       /\ \E i \in 1..Len(dsArgs[t].contents) : IsNaN(ScoresOf(dsArgs[t])[i])

\* C10: concurrent deep_search calls on identical arguments return
\* identical sequences, and each is the ranking of the scores of its own
\* arguments, whatever the interleaving and whoever built the model.
C10_Deterministic ==
    /\ \A t, u \in Tasks :
          (pc[t] = "ds_ret" /\ pc[u] = "ds_ret" /\ dsArgs[t] = dsArgs[u])
             => ret[t] = ret[u]
    /\ \A t \in Tasks :
          (pc[t] = "ds_ret" /\ dsArgs[t].contents # <<>>)
             => ret[t] = Rank(Embed(dsArgs[t].query), Encode(dsArgs[t].contents),
                              dsArgs[t].limit, dsArgs[t].threshold).results

\* C10 witness: two calls have returned the same non-trivial ranking, one
\* of them having built the model and the other not.
C10_Witness ==
    \E t, u \in Tasks :
       /\ t # u /\ pc[t] = "ds_ret" /\ pc[u] = "ds_ret"
       /\ dsArgs[t] = dsArgs[u] /\ Len(ret[t]) = 2 /\ ret[t] = ret[u]
       /\ ret[t][1][1] = 1


\* t is inside deep_search
InDeepSearch(t) ==
    pc[t] \in {"ds_enter", "ds_get", "ds_build", "ds_lock", "ds_encq",
               "ds_encq_run", "ds_encc", "ds_encc_run", "ds_ret"}

\* C11: a deep_search call on empty contents returns the empty list at
\* once and never touches the model: the call is never at get_or_init, in
\* the initializer, at the lock or in an encode, it holds neither the init
\* permit nor the guard, it was handed no model instance, and no model has
\* been constructed on its behalf.
C11_EmptyContentsSkipsModel ==
    \A t \in Tasks :
       (InDeepSearch(t) /\ dsArgs[t].contents = <<>>)
          => /\ pc[t] \in {"ds_enter", "ds_ret"}
             /\ pc[t] = "ds_ret" => ret[t] = <<>>
             /\ sePermit # t /\ seLock # t /\ inst[t] = 0
             /\ seBuilt = 0 /\ seCell = 0 /\ modelInput = <<>>

\* C11 witness: a call on empty contents has returned the empty list, the
\* model cell still unset.
C11_Witness ==
    \E t \in Tasks :
       /\ pc[t] = "ds_ret" /\ dsArgs[t].contents = <<>> /\ ret[t] = <<>>
       /\ seCell = 0 /\ seLock = 0 /\ sePermit = 0

\* C12: image_search_max never returns more than max candidates, whatever
\* max and whatever the pages were, a last page overshooting max included.
C12_AtMostMax ==
    ism.got.kind = "ok" => ism.got.len <= ism.max

\* C12 witness: the call has returned exactly max candidates after a last
\* page that took the count beyond max.
C12_Witness ==
    /\ ism.got.kind = "ok" /\ ism.got.len = ism.max
    /\ ism.offset > ism.max /\ ism.last > 1

\* C13: a successful return of fewer than max candidates comes only after
\* image_search returned an empty page; and the call never leaves the loop
\* while the count is below max and the latest page was not empty.
C13_ShortOnlyWhenExhausted ==
    /\ (ism.got.kind = "ok" /\ ism.got.len < ism.max) => ism.last = 0
    /\ (ism.pc \in {"after", "returned"} /\ ism.offset < ism.max) => ism.last = 0

\* C13 witness: the call has returned fewer than max candidates, some
\* pages having been non-empty before the empty one.
C13_Witness ==
    /\ ism.got.kind = "ok" /\ ism.got.len < ism.max
    /\ ism.got.len > 0 /\ ism.last = 0

\* C14: when a page fails after earlier pages succeeded, the candidates
\* those pages yielded are in the caller's hands.
C14_EarlierPagesKept ==
    (ism.fault # "none" /\ ism.offset > 0) => ism.got.len = ism.offset

\* C15: a transport failure while fetching a page reaches the caller as an
\* error value: the call does not unwind, and does not go on as if the
\* page had arrived.
C15_TransportFailureIsError ==
    ism.fault = "transport" => (ism.pc = "returned" /\ ism.got.kind = "err")

\* the lookups of the keyword loop, in order
KeywordAttempts == SelectSeq(lk.attempts, LAMBDA a : a.loop = "keyword")

\* C16: search_vocab returns Ok exactly when a lookup yielded definitions,
\* and the entry returned is that of the first such lookup among all that
\* were made, in order: every lookup before it, the two direct ones
\* included, yielded none, and none is made after it.
C16_FirstNonEmptyReturned ==
    LET n == Len(lk.attempts)
    IN  /\ (\E k \in 1..n : lk.attempts[k].definitions # <<>>)
               => (lk.pc = "returned" /\ lk.got.kind = "ok")
        /\ lk.got.kind = "ok"
               => /\ n >= 1
                  /\ lk.got.definitions = lk.attempts[n].definitions
                  /\ lk.attempts[n].definitions # <<>>
                  /\ \A k \in 1..(n - 1) : lk.attempts[k].definitions = <<>>

\* C16 witness: both direct lookups yielded no definitions and the entry
\* of a keyword lookup has been returned as Ok.
C16_Witness ==
    /\ lk.got.kind = "ok" /\ Len(lk.attempts) >= 3
    /\ lk.attempts[1].loop = "direct" /\ lk.attempts[2].loop = "direct"
    /\ lk.attempts[Len(lk.attempts)].loop = "keyword"
    /\ lk.got.definitions = lk.attempts[Len(lk.attempts)].definitions

\* C17: search_vocab returns Ok only with an entry that has definitions; it
\* makes at most four lookups; and once the keyword model is loaded, a call
\* that ended without any lookup yielding definitions, its lookups having
\* failed or come back empty, ended by returning an error.
C17_OkNonEmptyElseError ==
    /\ lk.got.kind = "ok" => lk.got.definitions # <<>>
    /\ Len(lk.attempts) <= 4
    /\ (/\ lk.pc \in {"returned", "panicked"}
        /\ lk.fault # "model"
        /\ \A k \in 1..Len(lk.attempts) : lk.attempts[k].definitions = <<>>)
          => lk.got.kind = "err"

\* C18: when the model yields several keywords and the lookup of the first
\* yields no definitions, the second fallback lookup is that of the next
\* keyword.
C18_SuccessiveKeywords ==
    (/\ lk.prediction # <<>>
     /\ Len(KeywordAttempts) >= 2)
       => (Len(lk.prediction[1]) >= 2
             => /\ KeywordAttempts[1].text = lk.prediction[1][1]
                /\ KeywordAttempts[2].text = lk.prediction[1][2])

\* C19: a task whose dictionary entry has no definition carrying an
\* example, so that the ranking comes back empty, ends as a reported
\* failure: it returns, with the placeholder record and no card carrying
\* the word, and does not panic.
C19_NoExamplesIsReportedFailure ==
    [][\A t \in Tasks :
          (pc[t] = "ds_ret" /\ examples[t] = <<>> /\ pc'[t] # "ds_ret")
             => (pc'[t] = "done" /\ out'[t] = JoinOk(DefaultCard))]_vars

\* C20: when the embedding model could not be constructed at all, a
\* construction having failed and none having succeeded,
\* create_visual_vocabs does not return a normally completed batch.
C20_ConstructionFailureAborts ==
    (seFailed /\ seBuilt = 0) => ~result.returned

\* the block search_vocab_inner was at when it panicked
FaultyBlock == dict.page.blocks[dict.k]

\* C21: a neoharrap group whose content has a number of element children
\* other than 3, zero included, is skipped without a panic: the handler
\* does not panic on it, it pushes no definition for it, and once the
\* lookup has returned every later group with 3 children and examples has
\* its definition in the result.
C21_MalformedGroupSkipped ==
    /\ (dict.pc = "panicked" /\ dict.fault = "block")
          => ~(/\ FaultyBlock.section = "neoharrap"
               /\ FaultyBlock.ok /\ FaultyBlock.label
               /\ FaultyBlock.count # 3)
    /\ \A i \in 1..Len(dict.definitions) :
          dict.page.blocks[dict.definitions[i].block].section = "neoharrap"
             => dict.page.blocks[dict.definitions[i].block].count = 3
    /\ dict.pc = "returned"
          => \A k \in 1..Len(dict.page.blocks) :
                (/\ dict.page.blocks[k].section = "neoharrap"
                 /\ dict.page.blocks[k].count = 3 /\ dict.page.blocks[k].last)
                   => \E i \in 1..Len(dict.definitions) : dict.definitions[i].block = k

\* C22: a missing selector match, sibling or child inside the neodict
\* section does not fail the lookup: search_vocab_inner does not panic in
\* a neodict group, and a lookup that returned has the definitions of
\* every neodict group that holds some.
C22_MissingMatchSkipsGroup ==
    /\ (dict.pc = "panicked" /\ dict.fault = "block")
          => FaultyBlock.section # "neodict"
    /\ dict.pc = "returned"
          => \A k \in 1..Len(dict.page.blocks) :
                (dict.page.blocks[k].section = "neodict"
                    /\ dict.page.blocks[k].count > 0)
                   => \E i \in 1..Len(dict.definitions) : dict.definitions[i].block = k

\* the entries of the page that carry every field parse_google_image
\* reads, by their index, in page order
GoodEntries ==
    SelectSeq([k \in 1..Len(gimg.entries) |-> k],
              LAMBDA k : LET x == gimg.entries[k]
                         IN  x.walk = "ok" /\ x.len >= 4 /\ x.url /\ x.title /\ x.thumbs)

\* C23: an entry that fails a step of the extraction walk, a URL-bearing
\* array shorter than the offsets read from it included, is dropped: the
\* parse of the page never panics on an entry, and the page returned is
\* the entries that pass, in their original order.
C23_BadEntryDropped ==
    /\ gimg.fault # "entry"
    /\ gimg.pc = "returned" => gimg.images = GoodEntries

\* the part of create_visual_vocab a task is in: lines 298-302 search the
\* images, 304-306 look the word up, 308-324 download an image, 327-365
\* collect the examples and rank them
Phase(t) ==
    CASE pc[t] = "images" -> "FetchingImages"
      [] pc[t] \in {"sv_get", "sv_build", "sv_lock", "sv_try"} -> "FetchingDictionary"
      [] pc[t] = "pick" -> "PickingImage"
      [] pc[t] = "examples" \/ InDeepSearch(t) -> "Ranking"
      [] pc[t] = "done" -> "Done"
      [] pc[t] = "panicked" -> "Failed"
      [] OTHER -> "Pending"

\* the phases that may follow a phase, itself included, in the order
\* Pending, FetchingImages, FetchingDictionary, Ranking, PickingImage, then
\* Done or Failed
PhasesFrom(phase) ==
    CASE phase = "Pending" ->
            {"Pending", "FetchingImages", "FetchingDictionary", "Ranking",
             "PickingImage", "Done", "Failed"}
      [] phase = "FetchingImages" ->
            {"FetchingImages", "FetchingDictionary", "Ranking", "PickingImage",
             "Done", "Failed"}
      [] phase = "FetchingDictionary" ->
            {"FetchingDictionary", "Ranking", "PickingImage", "Done", "Failed"}
      [] phase = "Ranking" -> {"Ranking", "PickingImage", "Done", "Failed"}
      [] phase = "PickingImage" -> {"PickingImage", "Done", "Failed"}
      [] OTHER -> {phase}

\* C24: every task goes through its phases in the order Pending,
\* FetchingImages, FetchingDictionary, Ranking, PickingImage, then Done or
\* Failed: no step takes a task from a phase to an earlier one, so no
\* image download is attempted before the ranking has completed.
C24_PhaseOrder ==
    [][\A t \in Tasks : Phase(t)' \in PhasesFrom(Phase(t))]_vars

\* C25: under fair scheduling every task eventually terminates, by return
\* or by panic, so the paging loop and the image loop of every task end;
\* create_visual_vocabs eventually returns, and it returns only once every
\* task has terminated.
C25_BatchTerminates ==
    /\ <>(\A t \in Tasks : Terminated(t))
    /\ <>result.returned
    /\ [](result.returned => \A t \in Tasks : Terminated(t))

\* C25 witness: the batch has returned after a task went round the paging
\* loop and the image loop to a card, and another task panicked.
C25_Witness ==
    /\ result.returned
    /\ \E t, u \in Tasks :
          /\ out[t].status = "ok" /\ out[t].card # DefaultCard
          /\ out[u].status = "panicked"

\* C26: the image loop downloads each candidate at most once and never
\* more candidates than there were; a successful download is the last one
\* made, it ends the loop, and the image kept is the candidate of that one
\* success.
C26_EachCandidateOnce ==
    LET m == Len(pick.tried)
    IN  /\ \A j, k \in 1..m : pick.tried[j].id = pick.tried[k].id => j = k
        /\ m <= pick.n
        /\ \A k \in 1..m : pick.tried[k].ok => k = m
        /\ \A k \in 1..m :
              pick.tried[k].ok
                 => (pick.pc \in {"found", "picked"} /\ pick.image = pick.tried[k].id)
        /\ pick.image # 0 => (m >= 1 /\ pick.tried[m].ok)

\* C26 witness: two downloads failed and the third succeeded, the
\* candidates not taken in search order, and its image is the one kept.
C26_Witness ==
    /\ pick.pc = "picked" /\ Len(pick.tried) = 3
    /\ pick.tried[3].ok /\ pick.image = pick.tried[3].id
    /\ pick.tried[1].id > pick.tried[2].id

\* the pair deep_search should rank first for the arguments a: the one
\* whose score is the highest of those that are numbers, the first of them
\* when several score alike
IsTop(a, i) ==
    /\ ~IsNaN(ScoresOf(a)[i])
    /\ \A j \in 1..Len(a.contents) :
          IsNaN(ScoresOf(a)[j])
             \/ PartialCmp(ScoresOf(a)[j], ScoresOf(a)[i]) = "Less"
             \/ (PartialCmp(ScoresOf(a)[j], ScoresOf(a)[i]) = "Equal" /\ i <= j)

\* C27: create_visual_vocab ranks the definition texts of all its
\* (definition, example) pairs against the word with limit 1 and threshold
\* 0.0, and the example of the card it makes is the one paired with the
\* highest-scoring definition, the first of them on a tie.
C27_ExampleOfTopDefinition ==
    [][\A t \in Tasks :
          /\ (pc[t] = "examples" /\ pc'[t] = "ds_enter")
                => dsArgs'[t] = Args(vocabs[t].word,
                                     [k \in 1..Len(ExamplesOf(entry[t])) |->
                                         ExamplesOf(entry[t])[k][1]],
                                     1, F32(0, 1))
          /\ (pc[t] = "ds_ret" /\ pc'[t] = "done")
                => \E i \in 1..Len(examples[t]) :
                      /\ IsTop(dsArgs[t], i)
                      /\ out'[t].card.example = examples[t][i][2]]_vars

\* C27 witness: the ranking has come back to create_visual_vocab with one
\* candidate, the top pair, which is not the first pair of the entry and
\* scores the same as a later pair.
C27_Witness ==
    \E t \in Tasks :
       /\ pc[t] = "ds_ret" /\ Len(ret[t]) = 1 /\ ret[t][1][1] >= 1
       /\ IsTop(dsArgs[t], ret[t][1][1] + 1)
       /\ \E j \in (ret[t][1][1] + 2)..Len(examples[t]) :
             PartialCmp(ScoresOf(dsArgs[t])[j],
                        ScoresOf(dsArgs[t])[ret[t][1][1] + 1]) = "Equal"


\* the tasks whose record is in the output of the batch
KeptTasks == {t \in Tasks : out[t].status = "ok"}

\* C28: the records create_visual_vocabs returns stand in the order of
\* their input flashcards, whatever the order the tasks completed in: the
\* record of a kept task stands at the position that counts the kept
\* tasks up to it, so at position i for input i when no task was dropped.
C28_InputOrder ==
    result.returned
       => /\ Len(result.cards) = Cardinality(KeptTasks)
          /\ \A t \in KeptTasks :
                result.cards[Cardinality({u \in KeptTasks : u <= t})] = out[t].card
          /\ KeptTasks = Tasks
                => \A i \in Tasks : result.cards[i] = out[i].card

\* C28 witness: the batch has returned the cards of two words, the card of
\* the earlier input first.
C28_Witness ==
    /\ result.returned
    /\ \E i, j \in 1..Len(result.cards) :
          /\ i < j
          /\ result.cards[i].definition = vocabs[1].definition
          /\ result.cards[j].definition = vocabs[2].definition

\* t is inside search_vocab
InSearchVocab(t) == pc[t] \in {"sv_get", "sv_build", "sv_lock", "sv_try"}

\* t awaits the guard of one of the two model locks
AwaitsLock(t) == pc[t] \in {"sv_lock", "ds_lock"}

\* C29: no task holds the keyword-model lock and the embedding-model lock
\* together, a task that holds one of them is inside the call that took it
\* and so never awaits the other, and while some task has not ended some
\* task can step: the tasks never deadlock on the two locks.
C29_LocksNeverNested ==
    /\ \A t \in Tasks :
          /\ ~(kwLock = t /\ seLock = t)
          /\ kwLock = t => pc[t] = "sv_try"
          /\ seLock = t => InDeepSearch(t) /\ ~AwaitsLock(t)
          /\ (kwLock = t \/ seLock = t) => ~AwaitsLock(t)
    /\ (\E t \in Tasks : ~Terminated(t)) => \E t \in Tasks : ENABLED TaskStep(t)
    /\ \A t \in Tasks :
          AwaitsLock(t) /\ ~ENABLED TaskStep(t)
             => \E u \in Tasks \ {t} :
                   /\ (kwLock = u \/ seLock = u)
                   /\ ENABLED TaskStep(u)

\* C29 witness: one task is in a lookup under the keyword-model lock while
\* another one holds the embedding-model lock.
C29_Witness ==
    \E t, u \in Tasks :
       /\ t # u
       /\ kwLock = t /\ pc[t] = "sv_try"
       /\ seLock = u /\ InDeepSearch(u)

\* t is in the lookup loops of search_vocab, where search_vocab_inner
\* fetches the dictionary pages
InLookups(t) == pc[t] = "sv_try"

\* C30: dictionary lookups are serialized across the tasks: a task is in
\* the lookup loops of search_vocab, from before its first direct lookup
\* until the call returns, exactly while it holds the keyword-model lock,
\* so at most one task is in the lookups at a time, the direct ones
\* included.
C30_LookupsSerialized ==
    /\ \A t \in Tasks : InLookups(t) <=> kwLock = t
    /\ Cardinality({t \in Tasks : InLookups(t)}) <= 1

\* C30 witness: a task is before its first direct lookup under the lock
\* while another one, the model loaded, waits for the lock.
C30_Witness ==
    \E t, u \in Tasks :
       /\ t # u
       /\ InLookups(t) /\ tries[t] = 0 /\ kwLock = t
       /\ pc[u] = "sv_lock" /\ kwCell # 0
====
